---- MODULE Spec2Model ----
(***************************************************************************)
(* pegomock/mockgen/mockgen.go: the mock generator.                        *)
(*                                                                         *)
(* A Go string is a sequence of one-character strings wherever the code    *)
(* looks inside it (sanitize, path.Base, strconv.Itoa, strings.Split,      *)
(* strings.Replace); fixed template text that the code only copies is one  *)
(* element.  The output buffer is a sequence of lines, one per g.p call.   *)
(***************************************************************************)
EXTENDS Integers, Sequences, FiniteSets, TLC

VARIABLES
    \* sanitize called on its own
    sanIn, sanOut, sanPc,
    \* one method through GenerateMockMethod / GenerateVerifierMethod
    method, mPkgOverride, mPc, stubText, verifierText, recorded,
    \* the inputs of GenerateMockFile and what its collaborators answer
    args, debugParser, selfPackage, loadResult,
    \* GenerateMockFile, run by run: where the run stands, the keys the
    \* current range loop has not visited yet, the generator, the local
    \* names taken, the order the alias loop visited the paths in, the
    \* fatal diagnostic, what ast.Print wrote, what GenerateMockSourceCode
    \* returned, the calls of WriteFile
    pc, todo, gen, localNames, order, diag, printed, output, writeCalls,
    \* the destination file
    file

sanVars == <<sanIn, sanOut, sanPc>>
methVars == <<method, mPkgOverride, mPc, stubText, verifierText, recorded>>
inputVars == <<args, debugParser, selfPackage, loadResult>>
runVars ==
    <<pc, todo, gen, localNames, order, diag, printed, output, writeCalls, file>>
vars == <<sanVars, methVars, inputVars, runVars>>

---------------------------------------------------------------------------
(* Bounds of the model *)

\* longest string handed to sanitize on its own
MaxLen == 3
\* most import paths the interface model requires (besides the fixed one)
MaxImports == 2
\* the same, where two runs are compared
MaxImportsTwoRuns == 1
\* most fixed input parameters of a method
MaxIn == 2
\* most output types of a method
MaxOut == 2
\* most arguments passed in the variadic slot of one call of a stub
MaxVarArgs == 2

---------------------------------------------------------------------------
(* Strings *)

Letters ==
    { "a", "b", "c", "d", "e", "f", "g", "h", "i", "j", "k", "l", "m",
      "n", "o", "p", "q", "r", "s", "t", "u", "v", "w", "x", "y", "z" }

Digits == { "0", "1", "2", "3", "4", "5", "6", "7", "8", "9" }

\* unicode.IsLetter
IsLetter(r) == r \in Letters

\* unicode.IsDigit
IsDigit(r) == r \in Digits

\* strings.Join
RECURSIVE Join(_, _)
Join(strs, sep) ==
    IF strs = <<>> THEN <<>>
    ELSE IF Len(strs) = 1 THEN strs[1]
    ELSE strs[1] \o sep \o Join(Tail(strs), sep)

\* strings.Split(s, sep) for a one-character separator
RECURSIVE Split(_, _)
Split(s, sep) ==
    IF \A i \in 1..Len(s) : s[i] # sep THEN <<s>>
    ELSE LET i == CHOOSE k \in 1..Len(s) :
                      s[k] = sep /\ \A j \in 1..(k - 1) : s[j] # sep
         IN  <<SubSeq(s, 1, i - 1)>> \o Split(SubSeq(s, i + 1, Len(s)), sep)

\* strings.Replace(s, old, new, n) for a one-element old; n < 0 replaces all
RECURSIVE Replace(_, _, _, _)
Replace(s, old, new, n) ==
    IF s = <<>> \/ n = 0 THEN s
    ELSE IF Head(s) = old
         THEN <<new>> \o Replace(Tail(s), old, new, IF n < 0 THEN n ELSE n - 1)
         ELSE <<Head(s)>> \o Replace(Tail(s), old, new, n)

\* strconv.Itoa for i >= 0
RECURSIVE Itoa(_)
Itoa(i) ==
    LET d == <<"0", "1", "2", "3", "4", "5", "6", "7", "8", "9">>
    IN  IF i < 10 THEN <<d[i + 1]>> ELSE Itoa(i \div 10) \o <<d[(i % 10) + 1]>>

\* path.Base
RECURSIVE StripSlashes(_)
StripSlashes(p) ==
    IF p # <<>> /\ p[Len(p)] = "/" THEN StripSlashes(SubSeq(p, 1, Len(p) - 1))
    ELSE p

RECURSIVE LastElement(_)
LastElement(p) ==
    IF \A i \in 1..Len(p) : p[i] # "/" THEN p
    ELSE LastElement(Tail(p))

Base(p) ==
    IF p = <<>> THEN <<".">>
    ELSE LET q == LastElement(StripSlashes(p))
         IN  IF q = <<>> THEN <<"/">> ELSE q

\* token.Lookup(name).IsKeyword(): the keywords of Go
Keywords ==
    { <<"b", "r", "e", "a", "k">>,
      <<"d", "e", "f", "a", "u", "l", "t">>,
      <<"f", "u", "n", "c">>,
      <<"i", "n", "t", "e", "r", "f", "a", "c", "e">>,
      <<"s", "e", "l", "e", "c", "t">>,
      <<"c", "a", "s", "e">>,
      <<"d", "e", "f", "e", "r">>,
      <<"g", "o">>,
      <<"m", "a", "p">>,
      <<"s", "t", "r", "u", "c", "t">>,
      <<"c", "h", "a", "n">>,
      <<"e", "l", "s", "e">>,
      <<"g", "o", "t", "o">>,
      <<"p", "a", "c", "k", "a", "g", "e">>,
      <<"s", "w", "i", "t", "c", "h">>,
      <<"c", "o", "n", "s", "t">>,
      <<"f", "a", "l", "l", "t", "h", "r", "o", "u", "g", "h">>,
      <<"i", "f">>,
      <<"r", "a", "n", "g", "e">>,
      <<"t", "y", "p", "e">>,
      <<"c", "o", "n", "t", "i", "n", "u", "e">>,
      <<"f", "o", "r">>,
      <<"i", "m", "p", "o", "r", "t">>,
      <<"r", "e", "t", "u", "r", "n">>,
      <<"v", "a", "r">> }

IsKeyword(name) == name \in Keywords

---------------------------------------------------------------------------
(* sanitize *)

\* the character the loop of sanitize appends to t for the rune r
SanitizeRune(t, r) ==
    IF t = <<>>
    THEN IF IsLetter(r) \/ r = "_" THEN r ELSE "_"
    ELSE IF IsLetter(r) \/ IsDigit(r) \/ r = "_" THEN r ELSE "_"

RECURSIVE SanitizeLoop(_, _)
SanitizeLoop(s, t) ==
    IF s = <<>> THEN t
    ELSE SanitizeLoop(Tail(s), Append(t, SanitizeRune(t, Head(s))))

\* the identifier sanitize falls back to
Fallback == <<"x">>

SanitizeKeepsUnderscore(s) == SanitizeLoop(s, <<>>)

sanitize(s) ==
    LET t == SanitizeLoop(s, <<>>)
    IN  IF t = <<"_">> THEN Fallback ELSE t

\* the characters of the strings handed to sanitize on its own
Alphabet == { "a", "2", "_", "-", "." }

BoundedStrings == UNION { [1..n -> Alphabet] : n \in 0..MaxLen }

MyPkgV2 == <<"m", "y", "-", "p", "k", "g", ".", "v", "2">>

SanitizeInputs == BoundedStrings \cup { MyPkgV2 }

SanInit ==
    /\ sanIn \in SanitizeInputs
    /\ sanOut = <<>>
    /\ sanPc = "call"

SanIdle ==
    /\ sanIn = <<>>
    /\ sanOut = <<>>
    /\ sanPc = "idle"

CallSanitize ==
    /\ sanPc = "call"
    /\ sanOut' = sanitize(sanIn)
    /\ sanPc' = "return"
    /\ UNCHANGED <<sanIn, methVars, inputVars, runVars>>

---------------------------------------------------------------------------
(* The interface model (package model): types, parameters, methods *)

TInt == [kind |-> "predeclared", pkg |-> <<>>, name |-> "int"]
TString == [kind |-> "predeclared", pkg |-> <<>>, name |-> "string"]
TChanInt == [kind |-> "chan", pkg |-> <<>>, name |-> "int"]
PathYaml ==
    <<"g", "o", "p", "k", "g", ".", "i", "n", "/", "y", "a", "m", "l", ".",
      "v", "2">>
TNode == [kind |-> "named", pkg |-> PathYaml, name |-> "Node"]

\* Type.String(pm, pkgOverride): the source text of a type reference
TypeString(t, pm, pkgOverride) ==
    CASE t.kind = "predeclared" -> <<t.name>>
      [] t.kind = "chan" -> <<"chan", " ", t.name>>
      [] t.kind = "named" ->
            IF pkgOverride = t.pkg THEN <<t.name>>
            ELSE (IF t.pkg \in DOMAIN pm THEN pm[t.pkg] ELSE <<>>)
                     \o <<".", t.name>>

---------------------------------------------------------------------------
(* type generator: the buffer, the indent, the package map *)

RECURSIVE Tabs(_)
Tabs(n) == IF n = 0 THEN <<>> ELSE <<"\t">> \o Tabs(n - 1)

NewGenerator == [buf |-> <<>>, indent |-> 0, packageMap |-> <<>>]

p(g, text) == [g EXCEPT !.buf = Append(@, Tabs(g.indent) \o text)]

in(g) == [g EXCEPT !.indent = @ + 1]

out(g) == IF g.indent > 0 THEN [g EXCEPT !.indent = @ - 1] ELSE g

(* A function of the generator is the sequence of the calls of p, in and  *)
(* out it makes, in the order it makes them; Run makes them.              *)

P(text) == << [call |-> "p", text |-> text] >>

In == << [call |-> "in", text |-> <<>>] >>

Out == << [call |-> "out", text |-> <<>>] >>

Call(g, c) ==
    CASE c.call = "p" -> p(g, c.text)
      [] c.call = "in" -> in(g)
      [] c.call = "out" -> out(g)

\* the generator after the first k of the calls
RECURSIVE After(_, _, _)
After(g, calls, k) ==
    IF k = 0 THEN g ELSE Call(After(g, calls, k - 1), calls[k])

\* the generator after all the calls: every call of p writes its line at
\* the indent the calls of in and out before it have left
Run(g, calls) ==
    LET shifts == SelectSeq(calls, LAMBDA c : c.call # "p")
        at == SelectSeq([k \in 1..Len(calls) |-> k],
                        LAMBDA k : calls[k].call = "p")
        bare == [g EXCEPT !.buf = <<>>]
        lines == [n \in 1..Len(at) |->
                     p(After(bare, shifts, at[n] - n), calls[at[n]].text).buf[1]]
    IN  [g EXCEPT !.buf = @ \o lines,
                  !.indent = After(bare, shifts, Len(shifts)).indent]

\* the calls of the iterations of a loop, one after the other
RECURSIVE Flatten(_)
Flatten(seqs) == IF seqs = <<>> THEN <<>> ELSE Head(seqs) \o Flatten(Tail(seqs))

Comma == <<", ">>

Bool(b) == IF b THEN "true" ELSE "false"

---------------------------------------------------------------------------
(* getStuff *)

ParamName(prm, i) ==
    IF prm.Name = "" THEN "_param" \o ToString(i) ELSE prm.Name

StuffArgs(m, g, pkgOverride) ==
    [i \in 1..Len(m.In) |->
        <<ParamName(m.In[i], i - 1), " ">>
            \o TypeString(m.In[i].Type, g.packageMap, pkgOverride)]
    \o (IF m.Variadic # <<>>
        THEN << <<ParamName(m.Variadic[1], Len(m.In)), " ", "...">>
                   \o TypeString(m.Variadic[1].Type, g.packageMap, pkgOverride) >>
        ELSE <<>>)

StuffArgNames(m) ==
    [i \in 1..Len(m.In) |-> <<ParamName(m.In[i], i - 1)>>]
    \o (IF m.Variadic # <<>>
        THEN << <<ParamName(m.Variadic[1], Len(m.In))>> >>
        ELSE <<>>)

StuffRets(m, g, pkgOverride) ==
    [i \in 1..Len(m.Out) |->
        TypeString(m.Out[i].Type, g.packageMap, pkgOverride)]

RetStringNeverParenthesized(rets) ==
    LET joined == Join(rets, Comma)
    IN  IF joined # <<>> THEN <<" ">> \o joined ELSE joined

RetString(rets) ==
    LET joined == Join(rets, Comma)
        tuple == IF Len(rets) > 1 THEN <<"(">> \o joined \o <<")">> ELSE joined
    IN  IF tuple # <<>> THEN <<" ">> \o tuple ELSE tuple

getStuff(m, g, pkgOverride) ==
    LET a == StuffArgs(m, g, pkgOverride)
        n == StuffArgNames(m)
        r == StuffRets(m, g, pkgOverride)
    IN  [args |-> a,
         argNames |-> n,
         argString |-> Join(a, Comma),
         rets |-> r,
         retString |-> RetString(r),
         argNamesString |-> Join(n, Comma)]

---------------------------------------------------------------------------
(* GenerateMockMethod *)

ReflectReturnTypes(returnTypes) ==
    [i \in 1..Len(returnTypes) |->
        <<"reflect.TypeOf((*">> \o returnTypes[i] \o <<")(nil)).Elem()">>]

ReturnValues(returnTypes) ==
    [i \in 1..Len(returnTypes) |-> <<"ret" \o ToString(i - 1)>>]

\* "for i, returnType := range returnTypes": the declarations
VarRetLoop(returnTypes) ==
    Flatten([i \in 1..Len(returnTypes) |->
                P(<<"var ret", ToString(i - 1), " ">> \o returnTypes[i])])

\* "for i, returnType := range returnTypes": the narrowing; every iteration
\* calls in() and none calls out()
NarrowLoop(returnTypes) ==
    Flatten([i \in 1..Len(returnTypes) |->
                P(<<"if result[", ToString(i - 1), "] != nil {">>)
                \o In
                \o P(<<"ret", ToString(i - 1), "  = result[", ToString(i - 1),
                       "].(">> \o returnTypes[i] \o <<")">>)
                \o P(<<"}">>)])

MockMethodCalls(g, mockType, m, pkgOverride) ==
    LET st == getStuff(m, g, pkgOverride)
        returnTypes == st.rets
        callArgs == st.argNamesString
        r == IF Len(m.Out) > 0 THEN "result :=" ELSE ""
    IN  P(<<"func (mock *", mockType, ") ", m.Name, "(">>
              \o st.argString \o <<")">> \o st.retString \o <<" {">>)
        \o In
        \o P(<<"params := []pegomock.Param{">> \o callArgs \o <<"}">>)
        \o P(<<r, " pegomock.GetGenericMockFrom(mock).Invoke(\"", m.Name,
               "\", params, ", Bool(m.Variadic # <<>>), ", []reflect.Type{">>
                 \o Join(ReflectReturnTypes(returnTypes), Comma) \o <<"})">>)
        \o (IF Len(m.Out) > 0
            THEN VarRetLoop(returnTypes)
                 \o P(<<"if len(result) != 0 {">>)
                 \o In
                 \o NarrowLoop(returnTypes)
                 \o Out
                 \o P(<<"}">>)
                 \o P(<<"return ">> \o Join(ReturnValues(returnTypes), Comma))
            ELSE <<>>)
        \o Out
        \o P(<<"}">>)

GenerateMockMethod(g, mockType, m, pkgOverride) ==
    Run(g, MockMethodCalls(g, mockType, m, pkgOverride))

---------------------------------------------------------------------------
(* GenerateVerifierMethod *)

\* splitArg: (array[0], array[1]) of strings.Split(arg, " ")
splitArg(arg) ==
    LET array == Split(arg, " ")
    IN  [argName |-> array[1], argType |-> array[2]]

argTypesFrom(as) == [i \in 1..Len(as) |-> splitArg(as[i]).argType]

calcParams(argString, as, methodName) ==
    IF argString # <<>>
    THEN P(<<"params := pegomock.GetGenericMockFrom(c.mock).GetInvocationParams(\"",
             methodName, "\")">>)
         \o P(<<"if len(params) > 0 {">>)
         \o Flatten([i \in 1..Len(as) |->
                LET paramType == Replace(Split(as[i], " ")[2], "...", "[]", -1)
                    n == ToString(i - 1)
                IN  P(<<"_param", n, " = make([]">> \o paramType
                          \o <<", len(params[", n, "]))">>)
                    \o P(<<"for u, param := range params[", n, "] {">>)
                    \o P(<<"_param", n, "[u]=param.(">> \o paramType \o <<")">>)
                    \o P(<<"}">>)])
         \o P(<<"}">>)
    ELSE <<>>

\* argsAsArray[i]: "_param%v []%v"
ArgsAsArray(as) ==
    [i \in 1..Len(as) |->
        <<"_param" \o ToString(i - 1), " ", "[]">>
            \o Replace(splitArg(as[i]).argType, "...", "[]", 1)]

PrefixedArgNames(argNames) ==
    [i \in 1..Len(argNames) |->
        argNames[i] \o <<"[len(">> \o argNames[i] \o <<")-1]">>]

VerifierMethodCalls(g, interfaceName, m, pkgOverride) ==
    LET st == getStuff(m, g, pkgOverride)
        as == st.args
        types == argTypesFrom(as)
        argTypes == IF m.Variadic # <<>>
                    THEN [types EXCEPT ![Len(types)] = Replace(@, "...", "[]", 1)]
                    ELSE types
        returnTypeString == interfaceName \o "_" \o m.Name \o "_OngoingVerification"
    IN  P(<<"type ", returnTypeString, " struct {">>)
        \o P(<<"mock *Mock", interfaceName>>)
        \o P(<<"}">>)
        \o P(<<"func (c *", returnTypeString, ") getCapturedArguments() (">>
                 \o Join(argTypes, Comma) \o <<") {">>)
        \o (IF Len(as) > 0
            THEN P(Join(st.argNames, Comma) \o <<" := c.getAllCapturedArguments()">>)
                 \o P(<<"return ">> \o Join(PrefixedArgNames(st.argNames), Comma))
            ELSE <<>>)
        \o P(<<"}">>)
        \o P(<<"func (c *", returnTypeString, ") getAllCapturedArguments() (">>
                 \o Join(ArgsAsArray(as), Comma) \o <<") {">>)
        \o (IF Len(as) > 0
            THEN calcParams(st.argString, as, m.Name) \o P(<<"return">>)
            ELSE <<>>)
        \o P(<<"}">>)
        \o P(<<"func (verifier *Verifier", interfaceName, ") ", m.Name, "(">>
                 \o st.argString \o <<") *", returnTypeString, " {">>)
        \o P(<<"params := []pegomock.Param{">> \o st.argNamesString \o <<"}">>)
        \o P(<<"pegomock.GetGenericMockFrom(verifier.mock).Verify(verifier.inOrderContext, verifier.invocationCountMatcher, \"",
               m.Name, "\", params, ", Bool(m.Variadic # <<>>), ")">>)
        \o P(<<"return &", returnTypeString, "{verifier.mock}">>)
        \o P(<<"}">>)

GenerateVerifierMethod(g, interfaceName, m, pkgOverride) ==
    Run(g, VerifierMethodCalls(g, interfaceName, m, pkgOverride))

---------------------------------------------------------------------------
(* GenerateMockInterface *)

MockInterfaceCalls(g, iface, selfPkg) ==
    LET mockTypeName == "Mock" \o iface.Name
    IN  P(<<>>)
        \o P(<<"// Mock of ", iface.Name, " interface">>)
        \o P(<<"type ", mockTypeName, " struct {">>)
        \o In \o P(<<"fail func(message string, callerSkip ...int)">>) \o Out
        \o P(<<"}">>)
        \o P(<<>>)
        \o P(<<"func New", mockTypeName, "() *", mockTypeName, " {">>)
        \o In
        \o P(<<"return &", mockTypeName, "{fail: pegomock.GlobalFailHandler}">>)
        \o Out
        \o P(<<"}">>)
        \o P(<<>>)
        \o Flatten([i \in 1..Len(iface.Methods) |->
               MockMethodCalls(g, mockTypeName, iface.Methods[i], selfPkg)
               \o P(<<>>)])
        \o P(<<"type Verifier", iface.Name, " struct {">>)
        \o In
        \o P(<<"mock *Mock", iface.Name>>)
        \o P(<<"invocationCountMatcher pegomock.Matcher">>)
        \o P(<<"inOrderContext *pegomock.InOrderContext">>)
        \o Out
        \o P(<<"}">>)
        \o P(<<>>)
        \o P(<<"func (mock *Mock", iface.Name,
               ") VerifyWasCalledOnce() *Verifier", iface.Name, " {">>)
        \o In
        \o P(<<"return &Verifier", iface.Name, "{mock, pegomock.Times(1), nil}">>)
        \o Out
        \o P(<<"}">>)
        \o P(<<>>)
        \o P(<<"func (mock *Mock", iface.Name,
               ") VerifyWasCalled(invocationCountMatcher pegomock.Matcher) *Verifier",
               iface.Name, " {">>)
        \o In
        \o P(<<"return &Verifier", iface.Name,
               "{mock, invocationCountMatcher, nil}">>)
        \o Out
        \o P(<<"}">>)
        \o P(<<>>)
        \o P(<<"func (mock *Mock", iface.Name,
               ") VerifyWasCalledInOrder(invocationCountMatcher pegomock.Matcher, inOrderContext *pegomock.InOrderContext) *Verifier",
               iface.Name, " {">>)
        \o In
        \o P(<<"return &Verifier", iface.Name,
               "{mock, invocationCountMatcher, inOrderContext}">>)
        \o Out
        \o P(<<"}">>)
        \o P(<<>>)
        \o Flatten([i \in 1..Len(iface.Methods) |->
               VerifierMethodCalls(g, iface.Name, iface.Methods[i], selfPkg)
               \o P(<<>>)])

GenerateMockInterface(g, iface, selfPkg) ==
    Run(g, MockInterfaceCalls(g, iface, selfPkg))

---------------------------------------------------------------------------
(* One method through the two method emitters, then one call of the stub *)

InTypes == { TInt, TChanInt, TNode }

OutTypes == { TString, TNode }

\* a Go signature names all of its parameters or none
ParamAt(i, named, t) ==
    [Name |-> IF named THEN "arg" \o ToString(i) ELSE "", Type |-> t]

Methods ==
    UNION { UNION { UNION {
        { [Name |-> "Do",
           In |-> [i \in 1..n |-> ParamAt(i - 1, named, ts[i])],
           Variadic |-> v,
           Out |-> [i \in 1..k |-> [Name |-> "", Type |-> os[i]]]] :
            ts \in [1..n -> InTypes],
            os \in [1..k -> OutTypes],
            v \in { <<>> } \cup { <<ParamAt(n, named, t)>> : t \in InTypes } }
        : k \in 0..MaxOut } : n \in 0..MaxIn } : named \in BOOLEAN }

\* the package map the alias loop of Generate leaves for PathYaml
MethodPackageMap == (PathYaml :> sanitize(Base(PathYaml)))

MethodGenerator == [NewGenerator EXCEPT !.packageMap = MethodPackageMap]

MethInit ==
    /\ method \in Methods
    /\ mPkgOverride \in { <<>>, PathYaml }
    /\ mPc = "start"
    /\ stubText = <<>>
    /\ verifierText = <<>>
    /\ recorded = [k |-> 0, params |-> <<>>]

MethIdle ==
    /\ method = [Name |-> "", In |-> <<>>, Variadic |-> <<>>, Out |-> <<>>]
    /\ mPkgOverride = <<>>
    /\ mPc = "idle"
    /\ stubText = <<>>
    /\ verifierText = <<>>
    /\ recorded = [k |-> 0, params |-> <<>>]

EmitMockMethod ==
    /\ mPc = "start"
    /\ stubText' =
           GenerateMockMethod(MethodGenerator, "MockIface", method, mPkgOverride).buf
    /\ mPc' = "mock"
    /\ UNCHANGED <<method, mPkgOverride, verifierText, recorded,
                   sanVars, inputVars, runVars>>

EmitVerifierMethod ==
    /\ mPc = "mock"
    /\ verifierText' =
           GenerateVerifierMethod(MethodGenerator, "Iface", method, mPkgOverride).buf
    /\ mPc' = "verifier"
    /\ UNCHANGED <<method, mPkgOverride, stubText, recorded,
                   sanVars, inputVars, runVars>>

(* Reading the emitted text back *)

IndexOf(seq, tok) == CHOOSE i \in 1..Len(seq) :
                         seq[i] = tok /\ \A j \in 1..(i - 1) : seq[j] # tok

RECURSIVE StripTabs(_)
StripTabs(line) ==
    IF line # <<>> /\ Head(line) = "\t" THEN StripTabs(Tail(line)) ELSE line

\* the comma-separated parts of a piece of text
Parts(text) == IF text = <<>> THEN <<>> ELSE Split(text, ", ")

\* the parameters of an emitted signature "func (...) Name(<params>)..."
SigParams(line) ==
    LET l == StripTabs(line)
    IN  Parts(SubSeq(l, IndexOf(l, "(") + 1, IndexOf(l, ")") - 1))

\* the return clause of an emitted stub signature: what stands between the
\* parameter list and the opening brace
SigReturnClause(line) ==
    LET l == StripTabs(line)
    IN  SubSeq(l, IndexOf(l, ")") + 1, Len(l) - 1)

\* the elements of the literal of "params := []pegomock.Param{<elements>}"
ParamsLiteral(line) ==
    LET l == StripTabs(line)
    IN  Parts(SubSeq(l, 2, Len(l) - 1))

Value(i, j) == [kind |-> "value", of |-> i, at |-> j, elems |-> <<>>]

Slice(i, k) ==
    [kind |-> "slice", of |-> i, at |-> 0, elems |-> [j \in 1..k |-> Value(i, j)]]

\* the list the stub hands to Invoke when it is called with one value per
\* fixed parameter and k values in the variadic slot
StubParamsAtCall(text, k) ==
    LET sig == SigParams(text[1])
        names == ParamsLiteral(text[2])
        bound(name) ==
            LET i == CHOOSE x \in 1..Len(sig) : sig[x][1] = name[1]
            IN  IF sig[i][3] = "..." THEN Slice(i, k) ELSE Value(i, 0)
    IN  [j \in 1..Len(names) |-> bound(names[j])]

CallStub ==
    /\ mPc = "verifier"
    /\ \E k \in 0..MaxVarArgs :
          /\ method.Variadic = <<>> => k = 0
          /\ recorded' = [k |-> k, params |-> StubParamsAtCall(stubText, k)]
    /\ mPc' = "called"
    /\ UNCHANGED <<method, mPkgOverride, stubText, verifierText,
                   sanVars, inputVars, runVars>>

---------------------------------------------------------------------------
(* The inputs of a run of GenerateMockFile *)

importPath ==
    <<"g", "i", "t", "h", "u", "b", ".", "c", "o", "m", "/", "p", "e", "t",
      "e", "r", "g", "t", "z", "/", "p", "e", "g", "o", "m", "o", "c", "k">>

PathCase == <<"f", "o", "o", "/", "c", "a", "s", "e">>
PathCase0 == <<"x", "/", "c", "a", "s", "e", "0">>
PathOther == <<"o", "t", "h", "e", "r", "/", "p", "e", "g", "o", "m", "o", "c", "k">>
PathDot == <<"d", "o", "t">>

\* the import paths an interface model may require
PathList == <<PathCase, PathCase0, PathOther>>

CandidatePaths == { PathList[i] : i \in 1..Len(PathList) }

\* the interface whose method refers to a type of every required import
InterfaceOver(imports) ==
    LET used == SelectSeq(PathList, LAMBDA x : x \in imports)
    IN  [Name |-> "Greeter",
         Methods |->
            << [Name |-> "Greet",
                In |-> << [Name |-> "name", Type |-> TString] >>
                       \o [i \in 1..Len(used) |->
                              [Name |-> "arg" \o ToString(i),
                               Type |-> [kind |-> "named", pkg |-> used[i],
                                         name |-> "T"]]],
                Variadic |-> <<>>,
                Out |-> << [Name |-> "", Type |-> TString] >>] >>]

\* the packages ParseFile or Reflect may return, with at most n imports
Packages(n) ==
    { [Name |-> "foo",
       Interfaces |-> << InterfaceOver(imports) >>,
       Imports |-> imports,
       DotImports |-> dots] :
        imports \in { s \in SUBSET CandidatePaths : Cardinality(s) <= n },
        dots \in { <<>>, <<PathDot>> } }

NoPackage ==
    [Name |-> "", Interfaces |-> <<>>, Imports |-> {}, DotImports |-> <<>>]

ArgLists == { <<"greeter.go">>, <<"foo", "Greeter">>, <<"foo">>, <<>> }

\* util.SourceMode
SourceMode(a) == Len(a) = 1 /\ a[1] = "greeter.go"

packageOut == "mocks"

Runs == { 1, 2 }

NoDiag == [kind |-> "none", err |-> "", raw |-> <<>>]

NoOutput == [formatted |-> FALSE, of |-> <<>>]

NoFile == [exists |-> FALSE, content |-> NoOutput]

RunIdle ==
    /\ pc = [r \in Runs |-> "start"]
    /\ todo = [r \in Runs |-> {}]
    /\ gen = [r \in Runs |-> NewGenerator]
    /\ localNames = [r \in Runs |-> {}]
    /\ order = [r \in Runs |-> <<>>]
    /\ diag = [r \in Runs |-> NoDiag]
    /\ printed = [r \in Runs |-> FALSE]
    /\ output = [r \in Runs |-> NoOutput]
    /\ writeCalls = [r \in Runs |-> 0]
    /\ file = NoFile

GenInit(n) ==
    /\ args \in ArgLists
    /\ debugParser \in BOOLEAN
    /\ selfPackage \in { <<>>, importPath, PathCase }
    /\ loadResult \in { [err |-> TRUE, pkg |-> NoPackage] }
                      \cup { [err |-> FALSE, pkg |-> pk] : pk \in Packages(n) }
    /\ RunIdle

GenIdle ==
    /\ args = <<>>
    /\ debugParser = FALSE
    /\ selfPackage = <<>>
    /\ loadResult = [err |-> TRUE, pkg |-> NoPackage]
    /\ RunIdle

\* a second run starts when the first has written its file
Turn(r) == r = 1 \/ pc[1] = "done"

---------------------------------------------------------------------------
(* GenerateMockSourceCode: loading the model *)

\* the source named in the header: src of GenerateMockSourceCode
SourceOf(a) ==
    IF SourceMode(a) THEN <<a[1]>> ELSE <<a[1], " (interfaces: ", a[2], ")">>

\* log.Fatal: neither source mode nor exactly two arguments
ArityFatal(r) ==
    /\ Turn(r)
    /\ pc[r] = "start"
    /\ ~SourceMode(args)
    /\ Len(args) # 2
    /\ pc' = [pc EXCEPT ![r] = "fatal"]
    /\ diag' = [diag EXCEPT ![r] =
                   [kind |-> "arity",
                    err |-> "Expected exactly two arguments, but got ",
                    raw |-> <<>>]]
    /\ UNCHANGED <<todo, gen, localNames, order, printed, output, writeCalls, file,
                   sanVars, methVars, inputVars>>

\* ParseFile or Reflect returns an error: panic
LoadFail(r) ==
    /\ Turn(r)
    /\ pc[r] = "start"
    /\ SourceMode(args) \/ Len(args) = 2
    /\ loadResult.err
    /\ pc' = [pc EXCEPT ![r] = "fatal"]
    /\ diag' = [diag EXCEPT ![r] =
                   [kind |-> "load", err |-> "Loading input failed: ",
                    raw |-> <<>>]]
    /\ UNCHANGED <<todo, gen, localNames, order, printed, output, writeCalls, file,
                   sanVars, methVars, inputVars>>

\* the head of Generate: the provenance header and the set of imports
GenerateHead(source, pkg) ==
    [g |-> Run(NewGenerator,
               P(<<"// Automatically generated by MockGen. DO NOT EDIT!">>)
               \o P(<<"// Source: ">> \o source)
               \o P(<<>>)),
     im |-> pkg.Imports \cup { importPath }]

\* the model is loaded (and printed, when debugging); generateOutput makes
\* the generator and Generate runs up to its first loop
LoadOk(r) ==
    /\ Turn(r)
    /\ pc[r] = "start"
    /\ SourceMode(args) \/ Len(args) = 2
    /\ ~loadResult.err
    /\ LET h == GenerateHead(SourceOf(args), loadResult.pkg)
       IN  /\ gen' = [gen EXCEPT ![r] = h.g]
           /\ todo' = [todo EXCEPT ![r] = h.im]
    /\ printed' = [printed EXCEPT ![r] = debugParser]
    /\ localNames' = [localNames EXCEPT ![r] = {}]
    /\ pc' = [pc EXCEPT ![r] = "aliases"]
    /\ UNCHANGED <<order, diag, output, writeCalls, file,
                   sanVars, methVars, inputVars>>

---------------------------------------------------------------------------
(* Generate: unique local names for the imports *)

\* try base, base0, base1, ...
RECURSIVE TryNames(_, _, _, _)
TryNames(base, pkgName, i, names) ==
    IF pkgName \in names \/ IsKeyword(pkgName)
    THEN TryNames(base, base \o Itoa(i), i + 1, names)
    ELSE pkgName

LocalNameFirstTry(pth, names) == sanitize(Base(pth))

LocalName(pth, names) ==
    LET base == sanitize(Base(pth))
    IN  TryNames(base, base, 0, names)

\* one iteration of "for pth := range im": Go visits the keys of a map in
\* an order it does not fix
AssignAlias(r) ==
    /\ Turn(r)
    /\ pc[r] = "aliases"
    /\ \E pth \in todo[r] :
          LET pkgName == LocalName(pth, localNames[r])
          IN  /\ gen' = [gen EXCEPT ![r].packageMap = @ @@ (pth :> pkgName)]
              /\ localNames' = [localNames EXCEPT ![r] = @ \cup { pkgName }]
              /\ todo' = [todo EXCEPT ![r] = @ \ { pth }]
              /\ order' = [order EXCEPT ![r] = Append(@, pth)]
    /\ UNCHANGED <<pc, diag, printed, output, writeCalls, file,
                   sanVars, methVars, inputVars>>

---------------------------------------------------------------------------
(* Generate: the package clause and the import block *)

ImportHead(g0, pkgName) ==
    Run(g0, P(<<"package ", pkgName>>)
            \o P(<<>>)
            \o P(<<"import (">>)
            \o In
            \o P(<<"\"reflect\"">>))

\* the alias loop is over: the package clause and the head of the block
BeginImports(r) ==
    /\ Turn(r)
    /\ pc[r] = "aliases"
    /\ todo[r] = {}
    /\ gen' = [gen EXCEPT ![r] = ImportHead(@, packageOut)]
    /\ todo' = [todo EXCEPT ![r] = DOMAIN gen[r].packageMap]
    /\ pc' = [pc EXCEPT ![r] = "imports"]
    /\ UNCHANGED <<localNames, order, diag, printed, output, writeCalls, file,
                   sanVars, methVars, inputVars>>

ImportLineKeepsSelf(g0, path, self) ==
    p(g0, g0.packageMap[path] \o <<" ", "\"">> \o path \o <<"\"">>)

\* the body of "for path, pkg := range g.packageMap"
ImportLine(g0, path, self) ==
    IF path = self THEN g0
    ELSE p(g0, g0.packageMap[path] \o <<" ", "\"">> \o path \o <<"\"">>)

\* one iteration of the loop, again in an order Go does not fix
RenderImport(r) ==
    /\ Turn(r)
    /\ pc[r] = "imports"
    /\ \E path \in todo[r] :
          /\ gen' = [gen EXCEPT ![r] = ImportLine(@, path, selfPackage)]
          /\ todo' = [todo EXCEPT ![r] = @ \ { path }]
    /\ UNCHANGED <<pc, localNames, order, diag, printed, output, writeCalls,
                   file,
                   sanVars, methVars, inputVars>>

\* the wildcard imports, the end of the block and every interface
GenerateTail(g0, pkg, self) ==
    Run(g0, Flatten([i \in 1..Len(pkg.DotImports) |->
                        P(<<". ", "\"">> \o pkg.DotImports[i] \o <<"\"">>)])
            \o Out
            \o P(<<")">>)
            \o Flatten([i \in 1..Len(pkg.Interfaces) |->
                           MockInterfaceCalls(g0, pkg.Interfaces[i], self)]))

FinishGenerate(r) ==
    /\ Turn(r)
    /\ pc[r] = "imports"
    /\ todo[r] = {}
    /\ gen' = [gen EXCEPT ![r] = GenerateTail(@, loadResult.pkg, selfPackage)]
    /\ pc' = [pc EXCEPT ![r] = "generated"]
    /\ UNCHANGED <<todo, localNames, order, diag, printed, output, writeCalls,
                   file,
                   sanVars, methVars, inputVars>>

---------------------------------------------------------------------------
(* Output and GenerateMockFile: formatting and writing *)

Range(f) == { f[i] : i \in DOMAIN f }

\* the lines between "import (" and the ")" that closes the block
ImportBlock(b) ==
    IF <<"import (">> \notin Range(b) THEN <<>>
    ELSE LET from == IndexOf(b, <<"import (">>)
             rest == SubSeq(b, from + 1, Len(b))
         IN  IF <<")">> \in Range(rest)
             THEN SubSeq(rest, 1, IndexOf(rest, <<")">>) - 1)
             ELSE rest

BlockClosed(b) ==
    /\ <<"import (">> \in Range(b)
    /\ <<")">> \in Range(SubSeq(b, IndexOf(b, <<"import (">>), Len(b)))

\* the characters of the import paths, in the order of their code points
Ascii ==
    << "-", ".", "/", "0", "1", "2", "3", "4", "5", "6", "7", "8", "9", "_",
       "a", "b", "c", "d", "e", "f", "g", "h", "i", "j", "k", "l", "m",
       "n", "o", "p", "q", "r", "s", "t", "u", "v", "w", "x", "y", "z" >>

\* a < b for two Go strings
RECURSIVE StringLess(_, _)
StringLess(a, b) ==
    IF b = <<>> THEN FALSE
    ELSE IF a = <<>> THEN TRUE
    ELSE IF Head(a) = Head(b) THEN StringLess(Tail(a), Tail(b))
    ELSE IndexOf(Ascii, Head(a)) < IndexOf(Ascii, Head(b))

\* the path of an import spec: what stands between its quotes
ImportSpecPath(line) ==
    LET l == StripTabs(line)
    IN  IF l = <<"\"reflect\"">> THEN <<"r", "e", "f", "l", "e", "c", "t">>
        ELSE SubSeq(l, IndexOf(l, "\"") + 1, Len(l) - 1)

\* ast.SortImports on one run of import specs: by path; the paths of the
\* block Generate emits differ from one another
SortImports(block) ==
    [i \in 1..Len(block) |->
        CHOOSE l \in Range(block) :
            Cardinality({ m \in Range(block) :
                            StringLess(ImportSpecPath(m), ImportSpecPath(l)) })
                = i - 1]

\* format.Source on a complete file: the specs of the import block sorted,
\* the text laid out in the standard style (the layout is not spelled out:
\* it is one canonical form of the lines it is given)
FormatSource(raw) ==
    IF ~BlockClosed(raw) THEN [formatted |-> TRUE, of |-> raw]
    ELSE LET from == IndexOf(raw, <<"import (">>)
             rest == SubSeq(raw, from + 1, Len(raw))
             n == IndexOf(rest, <<")">>) - 1
         IN  [formatted |-> TRUE,
              of |-> SubSeq(raw, 1, from)
                     \o SortImports(SubSeq(rest, 1, n))
                     \o SubSeq(rest, n + 1, Len(rest))]

OutputUnformatted(g0) == [formatted |-> FALSE, of |-> g0.buf]

\* Output when format.Source accepts the text
Output(g0) == FormatSource(g0.buf)

\* format.Source accepts the text; generateOutput and
\* GenerateMockSourceCode return it
OutputOk(r) ==
    /\ Turn(r)
    /\ pc[r] = "generated"
    /\ output' = [output EXCEPT ![r] = Output(gen[r])]
    /\ pc' = [pc EXCEPT ![r] = "formatted"]
    /\ UNCHANGED <<todo, gen, localNames, order, diag, printed, writeCalls,
                   file, sanVars, methVars, inputVars>>

FormatDiagNoRaw(g0) ==
    [kind |-> "format",
     err |-> "Failed to format generated source code: ",
     raw |-> <<>>]

\* the panic of Output
FormatDiag(g0) ==
    [kind |-> "format",
     err |-> "Failed to format generated source code: ",
     raw |-> g0.buf]

\* format.Source rejects the text: panic
OutputFail(r) ==
    /\ Turn(r)
    /\ pc[r] = "generated"
    /\ pc' = [pc EXCEPT ![r] = "fatal"]
    /\ diag' = [diag EXCEPT ![r] = FormatDiag(gen[r])]
    /\ UNCHANGED <<todo, gen, localNames, order, printed, output, writeCalls, file,
                   sanVars, methVars, inputVars>>

\* ioutil.WriteFile succeeds
WriteOk(r) ==
    /\ Turn(r)
    /\ pc[r] = "formatted"
    /\ writeCalls' = [writeCalls EXCEPT ![r] = @ + 1]
    /\ file' = [exists |-> TRUE, content |-> output[r]]
    /\ pc' = [pc EXCEPT ![r] = "done"]
    /\ UNCHANGED <<todo, gen, localNames, order, diag, printed, output,
                   sanVars, methVars, inputVars>>

\* what a failed ioutil.WriteFile may leave of the file: the file as it
\* was (it could not be opened), or the file truncated with the part of the
\* data that was written before the error
LeftByFailedWrite(f, data) ==
    { f } \cup { [exists |-> TRUE,
                  content |-> [formatted |-> FALSE,
                               of |-> SubSeq(data.of, 1, n)]] :
                    n \in { 0, Len(data.of) \div 2 } }

\* ioutil.WriteFile fails: panic
WriteFail(r) ==
    /\ Turn(r)
    /\ pc[r] = "formatted"
    /\ writeCalls' = [writeCalls EXCEPT ![r] = @ + 1]
    /\ file' \in LeftByFailedWrite(file, output[r])
    /\ pc' = [pc EXCEPT ![r] = "fatal"]
    /\ diag' = [diag EXCEPT ![r] =
                   [kind |-> "write", err |-> "Failed writing to destination: ",
                    raw |-> <<>>]]
    /\ UNCHANGED <<todo, gen, localNames, order, printed, output,
                   sanVars, methVars, inputVars>>

---------------------------------------------------------------------------
(* Specifications *)

GenerateMockFile(r) ==
    \/ ArityFatal(r)
    \/ LoadFail(r)
    \/ LoadOk(r)
    \/ AssignAlias(r)
    \/ BeginImports(r)
    \/ RenderImport(r)
    \/ FinishGenerate(r)
    \/ OutputOk(r)
    \/ OutputFail(r)
    \/ WriteOk(r)
    \/ WriteFail(r)

\* one run of GenerateMockFile
Init == SanIdle /\ MethIdle /\ GenInit(MaxImports)

Next == GenerateMockFile(1)

Spec == Init /\ [][Next]_vars

\* two runs of GenerateMockFile on the same inputs, one after the other
\* (in reflect mode, without the debugging print)
InitTwoRuns ==
    /\ SanIdle
    /\ MethIdle
    /\ GenInit(MaxImportsTwoRuns)
    /\ ~SourceMode(args)
    /\ ~debugParser

NextTwoRuns == \E r \in Runs : GenerateMockFile(r)

SpecTwoRuns == InitTwoRuns /\ [][NextTwoRuns]_vars

\* sanitize on every string of the bounded set
InitSanitize == SanInit /\ MethIdle /\ GenIdle

NextSanitize == CallSanitize

SpecSanitize == InitSanitize /\ [][NextSanitize]_vars

\* every method of the bounded set through the method emitters
InitMethod == SanIdle /\ MethInit /\ GenIdle

NextMethod == EmitMockMethod \/ EmitVerifierMethod \/ CallStub

SpecMethod == InitMethod /\ [][NextMethod]_vars

---------------------------------------------------------------------------
(* Reading the import block back *)

\* a line alias "path": the import of a resolved path
IsAliasLine(line) ==
    LET l == StripTabs(line)
    IN  l # <<>> /\ "\"" \in Range(l) /\ l[1] # ". "

LineAlias(line) ==
    LET l == StripTabs(line) IN SubSeq(l, 1, IndexOf(l, " ") - 1)

LinePath(line) ==
    LET l == StripTabs(line) IN SubSeq(l, IndexOf(l, "\"") + 1, Len(l) - 1)

AliasLines(b) ==
    LET block == ImportBlock(b)
    IN  { i \in 1..Len(block) : IsAliasLine(block[i]) }

\* the imports the loaded model requires, with the fixed one
Required == loadResult.pkg.Imports \cup { importPath }

\* the alias loop of run r has visited every required path
Resolved(r) ==
    /\ ~loadResult.err
    /\ DOMAIN gen[r].packageMap = Required

---------------------------------------------------------------------------
(* Properties *)

Injective(pm) ==
    \A a \in DOMAIN pm : \A b \in DOMAIN pm : a # b => pm[a] # pm[b]

\* C1: whatever import paths the model requires (paths that share their
\* last segment, paths whose last segment is a keyword) and in whatever
\* order the loop visits them, the package map is injective and no local
\* name is a keyword of Go.
C1_AliasesInjectiveNoKeyword ==
    \A r \in Runs :
        /\ Injective(gen[r].packageMap)
        /\ \A pth \in DOMAIN gen[r].packageMap :
               ~IsKeyword(gen[r].packageMap[pth])

C1_Witness ==
    /\ Resolved(1)
    /\ { importPath, PathOther, PathCase } \subseteq DOMAIN gen[1].packageMap

\* C2: two runs on the same model whose alias loops visited the paths in
\* the same order return the same output text, and the second run writes
\* the file the first wrote.
C2_SameOrderSameOutput ==
    ( /\ pc[1] = "done"
      /\ pc[2] \in { "formatted", "done" }
      /\ order[1] = order[2] )
    => /\ output[1] = output[2]
       /\ BlockClosed(output[1].of)
       /\ pc[2] = "done" => file.content = output[1]

\* the two runs rendered the import lines in different orders
C2_Witness ==
    /\ pc[1] = "done"
    /\ pc[2] = "done"
    /\ order[1] = order[2]
    /\ Len(order[1]) = 2
    /\ gen[1].buf # gen[2].buf

\* C3 as claimed: the package map does not depend on the order in which
\* the alias loop visits the paths.
C3_AliasesOrderIndependent ==
    (Resolved(1) /\ Resolved(2)) => gen[1].packageMap = gen[2].packageMap

\* the qualifier the templates hard-code
PegomockQualifier == <<"p", "e", "g", "o", "m", "o", "c", "k">>

\* C10 as claimed: the fixed path, and no other path, gets the local name
\* pegomock.
C10_FixedPathIsPegomock ==
    \A r \in Runs :
        \A pth \in DOMAIN gen[r].packageMap :
            (pth = importPath) <=> (gen[r].packageMap[pth] = PegomockQualifier)

\* C8: the self package gets a local name, which no other path gets, but
\* no import line; every other resolved path gets exactly one import line,
\* with its local name.
C8_SelfPackageNotImported ==
    \A r \in Runs :
        LET pm == gen[r].packageMap
            block == ImportBlock(gen[r].buf)
            lines == AliasLines(gen[r].buf)
        IN  /\ \A i \in lines : LinePath(block[i]) # selfPackage
            /\ (Resolved(r) /\ selfPackage \in Required) =>
                   /\ pm[selfPackage] \in localNames[r]
                   /\ \A q \in DOMAIN pm \ { selfPackage } :
                          pm[q] # pm[selfPackage]
            /\ BlockClosed(gen[r].buf) =>
                   \A q \in DOMAIN pm \ { selfPackage } :
                       /\ Cardinality({ i \in lines : LinePath(block[i]) = q }) = 1
                       /\ \A i \in lines :
                              LinePath(block[i]) = q => LineAlias(block[i]) = pm[q]

C8_Witness ==
    /\ BlockClosed(gen[1].buf)
    /\ selfPackage = PathCase
    /\ { PathCase, PathOther } \subseteq DOMAIN gen[1].packageMap

\* C7: WriteFile is called at most once, and only when the model was
\* loaded, the text generated and format.Source accepted it; a run that
\* ends on the arity check, a load error or a format error has not touched
\* the file; a run that ends well has written the formatted text; the panic
\* of a format error carries the error and the raw text.
C7_AllOrNothing ==
    /\ writeCalls[1] <= 1
    /\ writeCalls[1] = 1 =>
           /\ SourceMode(args) \/ Len(args) = 2
           /\ ~loadResult.err
           /\ BlockClosed(gen[1].buf)
           /\ Resolved(1)
           /\ todo[1] = {}
           /\ output[1] = Output(gen[1])
           /\ diag[1].kind \in { "none", "write" }
           /\ pc[1] \in { "done", "fatal" }
    /\ file.exists => writeCalls[1] = 1
    /\ pc[1] = "done" =>
           /\ file.exists
           /\ file.content = output[1]
           /\ output[1] = Output(gen[1])
           /\ output[1].formatted
    /\ (pc[1] = "fatal" /\ diag[1].kind \in { "arity", "load", "format" }) =>
           /\ writeCalls[1] = 0
           /\ ~file.exists
    /\ pc[1] = "fatal" => diag[1].kind # "none"
    /\ diag[1].kind = "format" =>
           /\ pc[1] = "fatal"
           /\ diag[1].err # ""
           /\ diag[1].raw = gen[1].buf
           /\ BlockClosed(diag[1].raw)

C7_Witness ==
    /\ pc[1] = "fatal"
    /\ diag[1].kind = "format"
    /\ writeCalls[1] = 0

---------------------------------------------------------------------------
(* Properties of the method emitters *)

\* the parameters the method declares: the fixed ones and the variadic one
Declared(m) == Len(m.In) + (IF m.Variadic # <<>> THEN 1 ELSE 0)

\* the return clause without its blank and its parentheses, part by part
ReturnComponents(rc) ==
    IF rc = <<>> THEN <<>>
    ELSE IF Len(rc) >= 3 /\ rc[2] = "(" /\ rc[Len(rc)] = ")"
         THEN Parts(SubSeq(rc, 3, Len(rc) - 1))
         ELSE Parts(Tail(rc))

\* C4: the stub of a method that declares N parameters (the variadic one
\* counted) and M outputs has N parameters and M return components; the
\* return clause is parenthesized iff M > 1 and absent iff M = 0; with
\* N = 0 the parameter list is still there, empty.
C4_StubArity ==
    mPc \in { "mock", "verifier", "called" } =>
        LET sig == StripTabs(stubText[1])
            rc == SigReturnClause(stubText[1])
            M == Len(method.Out)
        IN  /\ sig[5] = "("
            /\ ")" \in Range(sig)
            /\ Len(SigParams(stubText[1])) = Declared(method)
            /\ Declared(method) = 0 => sig[6] = ")"
            /\ Len(ReturnComponents(rc)) = M
            /\ (rc = <<>>) <=> (M = 0)
            /\ (rc # <<>> /\ rc[Len(rc)] = ")") <=> (M > 1)
            /\ M > 1 => (rc[1] = " " /\ rc[2] = "(")

C4_Witness ==
    /\ mPc = "mock"
    /\ Len(method.In) = 2
    /\ method.Variadic # <<>>
    /\ Len(method.Out) = 2

\* C5 as claimed: a variadic stub called with N fixed and K variadic
\* arguments hands Invoke a list of N + K elements, every variadic
\* argument an element of its own.
C5_VariadicUnpacked ==
    (mPc = "called" /\ method.Variadic # <<>>) =>
        recorded.params =
            [i \in 1..Len(method.In) |-> Value(i, 0)]
            \o [j \in 1..recorded.k |-> Value(Len(method.In) + 1, j)]

\* the line that declares getAllCapturedArguments
AllCapturedLine(text) ==
    StripTabs(text[CHOOSE i \in 1..Len(text) :
                       /\ Len(StripTabs(text[i])) >= 3
                       /\ StripTabs(text[i])[3] = ") getAllCapturedArguments() ("])

\* its results: name, blank, type
AllCapturedResults(text) ==
    LET l == AllCapturedLine(text) IN Parts(SubSeq(l, 4, Len(l) - 1))

\* the types the accessor narrows the recorded values to, by parameter
NarrowedTypes(text) ==
    LET at == SelectSeq([i \in 1..Len(text) |-> i],
                        LAMBDA i : /\ Len(StripTabs(text[i])) >= 3
                                   /\ StripTabs(text[i])[3] = "[u]=param.(")
    IN  [n \in 1..Len(at) |->
            LET l == StripTabs(text[at[n]]) IN SubSeq(l, 4, Len(l) - 1)]

\* C6 as claimed: getAllCapturedArguments declares one result per stub
\* parameter, in order, a sequence of the type the stub signature gives the
\* parameter (for the variadic parameter: of the sequence of its element
\* type), and narrows every recorded value to that type.
C6_AccessorTypesMatchStub ==
    mPc \in { "verifier", "called" } =>
        LET sig == SigParams(stubText[1])
            res == AllCapturedResults(verifierText)
            nar == NarrowedTypes(verifierText)
            slot(i) == Replace(SubSeq(sig[i], 3, Len(sig[i])), "...", "[]", 1)
        IN  /\ Len(res) = Len(sig)
            /\ Len(nar) = Len(sig)
            /\ \A i \in 1..Len(sig) :
                   /\ SubSeq(res[i], 3, Len(res[i])) = <<"[]">> \o slot(i)
                   /\ nar[i] = slot(i)
            /\ method.Variadic # <<>> =>
                   /\ sig[Len(sig)][3] = "..."
                   /\ "..." \notin Range(res[Len(res)])

---------------------------------------------------------------------------
(* Properties of sanitize *)

\* the character at place i may not stand there in an identifier
InvalidAt(s, i) ==
    IF i = 1 THEN ~(IsLetter(s[i]) \/ s[i] = "_")
    ELSE ~(IsLetter(s[i]) \/ IsDigit(s[i]) \/ s[i] = "_")

Replaced(s) == [i \in 1..Len(s) |-> IF InvalidAt(s, i) THEN "_" ELSE s[i]]

ValidIdentifier(s) ==
    /\ s # <<>>
    /\ \A i \in 1..Len(s) : ~InvalidAt(s, i)

My_pkg_v2 == <<"m", "y", "_", "p", "k", "g", "_", "v", "2">>

\* C9 as claimed: the fallback for the empty string and for every string
\* of invalid characters only, the replaced text for every other string,
\* always a valid identifier.
C9_FallbackWheneverAllInvalid ==
    sanPc = "return" =>
        /\ (\A i \in 1..Len(sanIn) : InvalidAt(sanIn, i)) => sanOut = Fallback
        /\ (\E i \in 1..Len(sanIn) : ~InvalidAt(sanIn, i)) =>
               sanOut = Replaced(sanIn)
        /\ ValidIdentifier(sanOut)

\* C9, amended: the fallback exactly when the replaced text is the single
\* underscore; otherwise the replaced text (the empty string for the empty
\* string, n underscores for n >= 2 invalid characters, my_pkg_v2 for
\* my-pkg.v2); a valid identifier for every string but the empty one.
C9_FallbackForSingleUnderscore ==
    sanPc = "return" =>
        /\ sanOut = IF Replaced(sanIn) = <<"_">> THEN Fallback
                    ELSE Replaced(sanIn)
        /\ sanIn = <<>> => sanOut = <<>>
        /\ sanIn = MyPkgV2 => sanOut = My_pkg_v2
        /\ sanIn # <<>> => ValidIdentifier(sanOut)

C9_Witness ==
    /\ sanPc = "return"
    /\ sanIn = <<"-">>
    /\ sanOut = Fallback

====
